---- MODULE Spec2Model ----
(***************************************************************************)
(* A model of the review-rating evaluator (Task-1/main.py) and of the      *)
(* review store of the web app (Task-2/app.py).                            *)
(*                                                                         *)
(* Python text is a sequence of items.  An item is one character ("{",     *)
(* "5", " ", ESC, ...) or an atomic chunk of text that the functions below *)
(* never split: a JSON string literal (QUOTED), a word of prose, the       *)
(* three-backquote fence.  Python values are records with a kind.          *)
(***************************************************************************)
EXTENDS Integers, Sequences, FiniteSets, TLC

VARIABLES
    pc,             \* which program runs and where it stands
    arg, ret,       \* argument and result of a function called on its own
    df, repeats,    \* evaluate: the dataset (ground-truth stars) and repeats
    style, idx, r,  \* evaluate: positions of the three nested loops
    repeat_preds, repeat_expls, valid_count,
    trials,         \* evaluate: what call_ollama returned in each repeat so far
    valid_counts, accuracies, consistencies,
    results, summary,
    ncalls,         \* evaluate: number of call_ollama invocations so far
    store, reqs     \* app.py: content of reviews.json, the requests in flight

pureVars == <<arg, ret>>
evalVars == <<df, repeats, style, idx, r, repeat_preds, repeat_expls, valid_count,
              trials, valid_counts, accuracies, consistencies, results, summary,
              ncalls>>
appVars == <<store, reqs>>
vars == <<pc, pureVars, evalVars, appVars>>

\* the variables of a program that is not the one running
EvalIdle ==
    /\ df = <<>> /\ repeats = 0 /\ style = 0 /\ idx = 0 /\ r = 0
    /\ repeat_preds = <<>> /\ repeat_expls = <<>> /\ valid_count = 0
    /\ trials = <<>> /\ valid_counts = <<>> /\ accuracies = <<>>
    /\ consistencies = <<>> /\ results = <<>> /\ summary = <<>> /\ ncalls = 0
AppIdle == store = <<>> /\ reqs = <<>>
PureIdle == arg = <<>> /\ ret = <<>>

(***************************** bounds **************************************)
MaxCleanLen == 4        \* longest text given to clean_ansi on its own
MaxStrLen == 3          \* longest text label given to normalize_stars
MaxNum == 8             \* numeric labels range over -MaxNum/2 .. MaxNum
MaxJsonLen == 6         \* longest text given to try_parse_json_flexible
MaxRepeats == 2         \* evaluate: repeats is in 1..MaxRepeats
MaxSamples == 1         \* evaluate: the dataset has 0..MaxSamples rows
MaxCross == 2           \* evaluate: rows * repeats is at most this
MaxAggLen == 3          \* longest list of predictions aggregated on its own
MaxRequests == 3        \* app.py: concurrent /api/submit requests

(************************** Python values **********************************)
NoItems == <<>>
PyNone == [kind |-> "none", num |-> 0, den |-> 1, str |-> NoItems, items |-> NoItems]
PyInt(n) == [kind |-> "int", num |-> n, den |-> 1, str |-> NoItems, items |-> NoItems]
PyBool(b) == [kind |-> "bool", num |-> IF b THEN 1 ELSE 0, den |-> 1,
              str |-> NoItems, items |-> NoItems]
\* the float m/d
PyFloat(m, d) == [kind |-> "float", num |-> m, den |-> d, str |-> NoItems,
                  items |-> NoItems]
PyNaN == [kind |-> "nan", num |-> 0, den |-> 1, str |-> NoItems, items |-> NoItems]
PyInf == [kind |-> "inf", num |-> 0, den |-> 1, str |-> NoItems, items |-> NoItems]
PyStr(s) == [kind |-> "str", num |-> 0, den |-> 1, str |-> s, items |-> NoItems]
PyList(xs) == [kind |-> "list", num |-> 0, den |-> 1, str |-> NoItems, items |-> xs]
PyDict(m) == [kind |-> "dict", num |-> 0, den |-> 1, str |-> NoItems, items |-> m]

\* Python's truth value of v, as `or` and `if` test it
Truthy(v) ==
    CASE v.kind = "none" -> FALSE
      [] v.kind \in {"int", "bool", "float"} -> v.num # 0
      [] v.kind = "str" -> v.str # <<>>
      [] v.kind \in {"list", "dict"} -> DOMAIN v.items # {}
      [] OTHER -> TRUE

Abs(n) == IF n < 0 THEN -n ELSE n

(**************************** text *****************************************)
ESC == "ESC"
SPIN == "SPIN"          \* one of the ten glyphs of SPINNERS
Whitespace == {" ", "\n"}
Digits == {"0", "1", "2", "3", "4", "5", "6", "7", "8", "9"}

RECURSIVE LStrip(_)
LStrip(t) == IF t # <<>> /\ Head(t) \in Whitespace THEN LStrip(Tail(t)) ELSE t

RECURSIVE RStrip(_)
RStrip(t) ==
    IF t # <<>> /\ t[Len(t)] \in Whitespace THEN RStrip(SubSeq(t, 1, Len(t) - 1)) ELSE t

\* str.strip()
Strip(t) == RStrip(LStrip(t))

IsPrefix(p, t) == Len(p) <= Len(t) /\ SubSeq(t, 1, Len(p)) = p

\* str.replace(p, ""): the non-overlapping occurrences of p, left to right
RECURSIVE Remove(_, _)
Remove(t, p) ==
    IF Len(t) < Len(p) THEN t
    ELSE IF IsPrefix(p, t) THEN Remove(SubSeq(t, Len(p) + 1, Len(t)), p)
    ELSE <<Head(t)>> \o Remove(Tail(t), p)

\* str.index(c) and str.rindex(c), 1-based; 0 when c does not occur (ValueError)
Index(t, c) ==
    IF \E i \in 1..Len(t) : t[i] = c
    THEN CHOOSE i \in 1..Len(t) : t[i] = c /\ \A j \in 1..(i - 1) : t[j] # c
    ELSE 0
RIndex(t, c) ==
    IF \E i \in 1..Len(t) : t[i] = c
    THEN CHOOSE i \in 1..Len(t) : t[i] = c /\ \A j \in (i + 1)..Len(t) : t[j] # c
    ELSE 0

(************************** clean_ansi *************************************)
\* The character classes of the regular expression ANSI, over the one-character
\* items used here.  A chunk is in no class.
CsiIntro == {"[", "]", "A"}                                        \* [@-_]
CsiParam == Digits \cup {"?", ":", "<", ">"}                        \* [0-?]
CsiInter == {" ", ",", ".", "-"}                                    \* [ -/]
CsiFinal == {"[", "]", "A", "a", "l", "h", "x", "{", "}"}           \* [@-~]

RECURSIVE RunEnd(_, _, _)
\* the first position from i on whose item is not in class
RunEnd(t, i, class) ==
    IF i <= Len(t) /\ t[i] \in class THEN RunEnd(t, i + 1, class) ELSE i

\* length of the match of ANSI at the head of t, 0 when there is none; the classes
\* are disjoint, so the greedy match is the only one
AnsiMatch(t) ==
    IF Len(t) >= 3 /\ t[1] = ESC /\ t[2] \in CsiIntro
    THEN LET k == RunEnd(t, RunEnd(t, 3, CsiParam), CsiInter)
         IN  IF k <= Len(t) /\ t[k] \in CsiFinal THEN k ELSE 0
    ELSE 0

RECURSIVE AnsiSub(_)
\* ANSI.sub("", t)
AnsiSub(t) ==
    IF t = <<>> THEN <<>>
    ELSE LET k == AnsiMatch(t)
         IN  IF k > 0 THEN AnsiSub(SubSeq(t, k + 1, Len(t)))
             ELSE <<Head(t)>> \o AnsiSub(Tail(t))

CursorHide == <<"[", "?", "2", "5", "l">>
CursorShow == <<"[", "?", "2", "5", "h">>

clean_ansi(text) ==
    Strip(Remove(Remove(Remove(AnsiSub(text), <<SPIN>>), CursorHide), CursorShow))

(************************ normalize_stars **********************************)
DigitVal(c) ==
    CASE c = "0" -> 0 [] c = "1" -> 1 [] c = "2" -> 2 [] c = "3" -> 3 [] c = "4" -> 4
      [] c = "5" -> 5 [] c = "6" -> 6 [] c = "7" -> 7 [] c = "8" -> 8 [] c = "9" -> 9

RECURSIVE DigitsVal(_)
DigitsVal(s) ==
    IF s = <<>> THEN 0 ELSE 10 * DigitsVal(SubSeq(s, 1, Len(s) - 1)) + DigitVal(s[Len(s)])

RECURSIVE Pow10(_)
Pow10(n) == IF n = 0 THEN 1 ELSE 10 * Pow10(n - 1)

\* str.isdigit()
IsDigitStr(s) == s # <<>> /\ \A i \in 1..Len(s) : s[i] \in Digits

\* float(s) of a text: [ok, num, den], the value num/den.  float() strips the text
\* and accepts an optional sign, digits and at most one point, with a digit
\* somewhere; anything else raises ValueError.
PyFloatOfStr(s) ==
    LET t == Strip(s)
        neg == t # <<>> /\ Head(t) = "-"
        body == IF neg THEN Tail(t) ELSE t
        dot == Index(body, ".")
        whole == IF dot = 0 THEN body ELSE SubSeq(body, 1, dot - 1)
        frac == IF dot = 0 THEN <<>> ELSE SubSeq(body, dot + 1, Len(body))
        digitsOnly(x) == \A i \in 1..Len(x) : x[i] \in Digits
    IN  IF digitsOnly(whole) /\ digitsOnly(frac) /\ Len(whole) + Len(frac) > 0
        THEN [ok |-> TRUE,
              num |-> (IF neg THEN -1 ELSE 1)
                          * (DigitsVal(whole) * Pow10(Len(frac)) + DigitsVal(frac)),
              den |-> Pow10(Len(frac))]
        ELSE [ok |-> FALSE, num |-> 0, den |-> 1]

\* round(m/d) of a float: to the nearest integer, a tie to the even one
PyRound(m, d) ==
    LET q == m \div d
        rem == m % d
    IN  IF 2 * rem < d THEN q
        ELSE IF 2 * rem > d THEN q + 1
        ELSE IF q % 2 = 0 THEN q ELSE q + 1

\* int(m/d) of a float: truncation toward zero
PyIntOfFloat(m, d) == IF m < 0 THEN -(Abs(m) \div d) ELSE m \div d

\* lines 158-161, t being the stripped text: [ok, val], ok false when it raises
StrippedToInt(t, f) ==
    IF IsDigitStr(t) THEN [ok |-> TRUE, val |-> DigitsVal(t)]
    ELSE IF f.ok THEN [ok |-> TRUE, val |-> PyIntOfFloat(f.num, f.den)]
    ELSE [ok |-> FALSE, val |-> 0]
\* the text branch of normalize_stars
StrToInt(s) == StrippedToInt(Strip(s), PyFloatOfStr(Strip(s)))

\* the try block of normalize_stars for a value other than None
ToInt(v) ==
    CASE v.kind \in {"int", "bool"} -> [ok |-> TRUE, val |-> v.num]
      [] v.kind = "float" -> [ok |-> TRUE, val |-> PyRound(v.num, v.den)]
      [] v.kind = "str" -> StrToInt(v.str)
      [] OTHER -> [ok |-> FALSE, val |-> 0]   \* round(nan), round(inf), int([..])

Clamp(val) == IF val < 1 THEN 1 ELSE IF val > 5 THEN 5 ELSE val

\* a failed conversion clamped like a number instead of returned as -1
ClampedRescued(c) == Clamp(IF c.ok THEN c.val ELSE -1)
\* lines 164-170: -1 when the conversion raised, else the value clamped into 1..5
Clamped(c) == IF ~c.ok THEN -1 ELSE Clamp(c.val)

\* normalize_stars(v): an integer in 1..5, or -1
normalize_stars(v) == IF v.kind = "none" THEN -1 ELSE Clamped(ToInt(v))

(********************* try_parse_json_flexible *****************************)
Q == "\""                       \* the double-quote character
ControlChars == {"\n", ESC}     \* not allowed inside a JSON string

SkipWs(t, i) == RunEnd(t, i, Whitespace)

NoParse == [ok |-> FALSE, next |-> 0, val |-> PyNone]
Parsed(n, v) == [ok |-> TRUE, next |-> n, val |-> v]

\* the JSON number at position i of t, if one starts there: -?(0|[1-9][0-9]*)(\.[0-9]+)?
ScanNumber(t, i) ==
    LET a == IF i <= Len(t) /\ t[i] = "-" THEN i + 1 ELSE i
        b == IF a <= Len(t) /\ t[a] = "0" THEN a + 1 ELSE RunEnd(t, a, Digits)
        c == IF b <= Len(t) /\ t[b] = "." THEN RunEnd(t, b + 1, Digits) ELSE b
        hasFrac == b > a /\ c > b + 1
        end == IF hasFrac THEN c ELSE b
        whole == DigitsVal(SubSeq(t, a, b - 1))
        frac == SubSeq(t, b + 1, end - 1)
        sign == IF a > i THEN -1 ELSE 1
    IN  IF b = a THEN NoParse
        ELSE IF hasFrac
        THEN Parsed(end, PyFloat(sign * (whole * Pow10(Len(frac)) + DigitsVal(frac)),
                                 Pow10(Len(frac))))
        ELSE Parsed(end, PyInt(sign * whole))

\* the JSON string whose opening quote is at position i: its content runs to the
\* next quote (the texts drawn hold no backslash)
ScanString(t, i) ==
    LET close == Index(SubSeq(t, i + 1, Len(t)), Q)
        content == SubSeq(t, i + 1, i + close - 1)
    IN  IF close = 0 \/ \E k \in 1..Len(content) : content[k] \in ControlChars
        THEN NoParse
        ELSE Parsed(i + close + 1, PyStr(content))

RECURSIVE ParseValue(_, _), ParseMembers(_, _, _), ParseElems(_, _, _)
RECURSIVE MemberKeyed(_, _, _), MemberValued(_, _, _, _), MemberNext(_, _, _)
RECURSIVE ElemParsed(_, _, _), ElemNext(_, _, _)

\* json's scan_once at position i
ParseValue(t, i) ==
    IF i > Len(t) THEN NoParse
    ELSE CASE t[i] = Q -> ScanString(t, i)
           [] t[i] = "{" ->
                IF SkipWs(t, i + 1) <= Len(t) /\ t[SkipWs(t, i + 1)] = "}"
                THEN Parsed(SkipWs(t, i + 1) + 1, PyDict(<<>>))
                ELSE ParseMembers(t, SkipWs(t, i + 1), <<>>)
           [] t[i] = "[" ->
                IF SkipWs(t, i + 1) <= Len(t) /\ t[SkipWs(t, i + 1)] = "]"
                THEN Parsed(SkipWs(t, i + 1) + 1, PyList(<<>>))
                ELSE ParseElems(t, SkipWs(t, i + 1), <<>>)
           [] t[i] = "null" -> Parsed(i + 1, PyNone)
           [] t[i] = "true" -> Parsed(i + 1, PyBool(TRUE))
           [] t[i] = "false" -> Parsed(i + 1, PyBool(FALSE))
           [] t[i] = "NaN" -> Parsed(i + 1, PyNaN)
           [] t[i] = "Infinity" -> Parsed(i + 1, PyInf)
           [] OTHER -> ScanNumber(t, i)

\* JSONObject from the first key, expected at position j, on: the key, the colon,
\* the value, then "}" or "," and the next key; a later duplicate key wins
ParseMembers(t, j, acc) ==
    IF j > Len(t) \/ t[j] # Q THEN NoParse ELSE MemberKeyed(t, acc, ScanString(t, j))
MemberKeyed(t, acc, key) ==
    IF ~key.ok \/ SkipWs(t, key.next) > Len(t) THEN NoParse
    ELSE IF t[SkipWs(t, key.next)] # ":" THEN NoParse
    ELSE MemberValued(t, acc, key, ParseValue(t, SkipWs(t, SkipWs(t, key.next) + 1)))
MemberValued(t, acc, key, v) ==
    IF ~v.ok THEN NoParse
    ELSE MemberNext(t, (key.val.str :> v.val) @@ acc, SkipWs(t, v.next))
MemberNext(t, acc, k) ==
    IF k > Len(t) THEN NoParse
    ELSE IF t[k] = "}" THEN Parsed(k + 1, PyDict(acc))
    ELSE IF t[k] = "," THEN ParseMembers(t, SkipWs(t, k + 1), acc)
    ELSE NoParse

\* JSONArray from the first element, expected at position j, on
ParseElems(t, j, acc) == ElemParsed(t, acc, ParseValue(t, j))
ElemParsed(t, acc, v) ==
    IF ~v.ok THEN NoParse ELSE ElemNext(t, Append(acc, v.val), SkipWs(t, v.next))
ElemNext(t, acc, k) ==
    IF k > Len(t) THEN NoParse
    ELSE IF t[k] = "]" THEN Parsed(k + 1, PyList(acc))
    ELSE IF t[k] = "," THEN ParseElems(t, SkipWs(t, k + 1), acc)
    ELSE NoParse

\* json.loads(s): one value, and nothing but whitespace around it
WholeText(s, v) == IF v.ok /\ SkipWs(s, v.next) = Len(s) + 1 THEN v ELSE NoParse
json_loads(s) == WholeText(s, ParseValue(s, SkipWs(s, 1)))

Extracted(d) == [ok |-> TRUE, parsed |-> d, err |-> ""]
NotExtracted(why) == [ok |-> FALSE, parsed |-> PyNone, err |-> why]

\* the direct parse, were a list without a leading mapping to fall through to the
\* brace-span fallback like a scalar does
DirectOfLenient(d) ==
    IF d.ok /\ d.val.kind = "list" /\ Len(d.val.items) > 0 /\ d.val.items[1].kind = "dict"
    THEN [returned |-> TRUE, res |-> Extracted(d.val.items[1])]
    ELSE IF d.ok /\ d.val.kind = "dict"
    THEN [returned |-> TRUE, res |-> Extracted(d.val)]
    ELSE [returned |-> FALSE, res |-> NotExtracted("")]
\* lines 123-134: whether the first try block returned, and what, d being what
\* json.loads gave
DirectOf(d) ==
    IF d.ok /\ d.val.kind = "list"
    THEN IF Len(d.val.items) = 0
         THEN [returned |-> TRUE, res |-> NotExtracted("empty list")]
         ELSE IF d.val.items[1].kind = "dict"
         THEN [returned |-> TRUE, res |-> Extracted(d.val.items[1])]
         ELSE [returned |-> TRUE, res |-> NotExtracted("first item not dict")]
    ELSE IF d.ok /\ d.val.kind = "dict"
    THEN [returned |-> TRUE, res |-> Extracted(d.val)]
    ELSE [returned |-> FALSE, res |-> NotExtracted("")]
\* the first try block
DirectParse(s) == DirectOf(json_loads(s))

\* s[first:last] of the second try block; absent when index or rindex raises
BraceSpan(s) ==
    IF Index(s, "{") = 0 \/ RIndex(s, "}") = 0 THEN [found |-> FALSE, snippet |-> <<>>]
    ELSE [found |-> TRUE, snippet |-> SubSeq(s, Index(s, "{"), RIndex(s, "}"))]

\* lines 141-145, d being what json.loads gave for the snippet
SpanOf(d) ==
    IF ~d.ok THEN NotExtracted("parse failed")
    ELSE IF d.val.kind = "dict" THEN Extracted(d.val)
    ELSE NotExtracted("extracted JSON not dict")
\* the second try block
BraceSpanParse(s) ==
    IF BraceSpan(s).found THEN SpanOf(json_loads(BraceSpan(s).snippet))
    ELSE NotExtracted("parse failed")

Fence == "FENCE"                \* the three backquotes of a code fence
\* s as the function parses it: stripped, the code fences removed, stripped
Unfenced(text) == Strip(Remove(Remove(Strip(text), <<Fence, "json">>), <<Fence>>))

\* what the function returns once the first try block has ended as direct
AfterDirect(s, direct) == IF direct.returned THEN direct.res ELSE BraceSpanParse(s)
ParseUnfenced(s) == AfterDirect(s, DirectParse(s))

try_parse_json_flexible(text) == ParseUnfenced(Unfenced(text))

(***************************** call_ollama *********************************)
\* What the subprocess did: it timed out, Popen or communicate raised an exception
\* with message msg, or it exited having written out and err.
ProcTimeout == [kind |-> "timeout", out |-> <<>>, err |-> <<>>, msg |-> <<>>]
ProcRaised(m) == [kind |-> "exception", out |-> <<>>, err |-> <<>>, msg |-> m]
ProcExit(o, e) == [kind |-> "exit", out |-> o, err |-> e, msg |-> <<>>]

ErrorOpen == "<ERROR: "
ErrorValue(t) == <<ErrorOpen>> \o t \o <<">">>
\* the chunks whose lower-case text contains "error" or "panic"
ErrorWords == {"Error:", "error", "panic:"}
HasErrorWord(t) == \E i \in 1..Len(t) : t[i] \in ErrorWords

call_ollama(proc) ==
    CASE proc.kind = "timeout" -> ErrorValue(<<"TIMEOUT">>)
      [] proc.kind = "exception" -> ErrorValue(proc.msg)
      [] OTHER ->
            LET clean_out == clean_ansi(proc.out)
                clean_err == clean_ansi(proc.err)
            IN  IF clean_err # <<>> /\ HasErrorWord(clean_err)
                THEN ErrorValue(clean_err)
                ELSE clean_out

(************************ evaluate: one repeat *****************************)
Key(name) == <<name>>
Has(parsed, name) == Key(name) \in DOMAIN parsed.items
\* dict.get(name), None when absent
Get(parsed, name) == IF Has(parsed, name) THEN parsed.items[Key(name)] ELSE PyNone
\* Python's a or b
PyOr(a, b) == IF Truthy(a) THEN a ELSE b

\* lines 207-212: the label of a mapping
ResolveLabel(parsed) ==
    IF Has(parsed, "predicted_stars") THEN Get(parsed, "predicted_stars")
    ELSE IF Has(parsed, "label") THEN Get(parsed, "label")
    ELSE Get(parsed, "stars")

\* the rationale taken from the first key that is present, whatever its value
ResolveExplanationByPresence(parsed) ==
    LET e == IF Has(parsed, "explanation") THEN Get(parsed, "explanation")
             ELSE IF Has(parsed, "reason") THEN Get(parsed, "reason")
             ELSE Get(parsed, "justification")
    IN  IF Truthy(e) THEN e ELSE PyNone
\* lines 214 and 217: the rationale of a mapping, None when there is none
ResolveExplanation(parsed) ==
    LET explanation == PyOr(PyOr(PyOr(Get(parsed, "explanation"), Get(parsed, "reason")),
                                 Get(parsed, "justification")), PyStr(<<>>))
    IN  IF Truthy(explanation) THEN explanation ELSE PyNone

\* line 216: what is appended to repeat_preds
PredOf(norm) == IF norm >= 1 THEN PyInt(norm) ELSE PyNone

\* a repeat counted only when its label is usable too
ValidIncrementIfLabelled(extracted, norm) == IF extracted /\ norm >= 1 THEN 1 ELSE 0
\* lines 202 and 218: what a repeat adds to valid_count
ValidIncrement(extracted, norm) == IF extracted THEN 1 ELSE 0

\* lines 202-218: what a repeat records, from the result res of the extraction
Recorded(raw, res, norm) ==
    [raw |-> raw,
     pred |-> IF res.ok THEN PredOf(norm) ELSE PyNone,
     expl |-> IF res.ok THEN ResolveExplanation(res.parsed) ELSE PyNone,
     valid |-> ValidIncrement(res.ok, norm)]
TrialOfParse(raw, res) ==
    Recorded(raw, res, IF res.ok THEN normalize_stars(ResolveLabel(res.parsed)) ELSE -1)
TrialOfRaw(raw) == TrialOfParse(raw, try_parse_json_flexible(raw))
\* lines 198-218: the outcome of one repeat, from what the subprocess did
Trial(proc) == TrialOfRaw(call_ollama(proc))

(********************** evaluate: aggregation ******************************)
IsPred(p) == p.kind # "none"
\* line 224
PredsValid(preds) == SelectSeq(preds, IsPred)

\* the places of xs at which an element occurs for the first time
FirstPlaces(xs) == {i \in 1..Len(xs) : \A j \in 1..(i - 1) : xs[j] # xs[i]}
\* the n-th smallest of the set S of numbers
Nth(S, n) == CHOOSE i \in S : Cardinality({j \in S : j < i}) = n - 1
CountIn(xs, x) == Cardinality({j \in 1..Len(xs) : xs[j] = x})
\* Counter(xs): the distinct elements in the order they first occur, each with its
\* count
Counter(xs) ==
    [n \in 1..Cardinality(FirstPlaces(xs)) |->
        [key |-> xs[Nth(FirstPlaces(xs), n)],
         count |-> CountIn(xs, xs[Nth(FirstPlaces(xs), n)])]]

\* the entry with the highest count, the last one seen among equals
MostCommonLast(c) ==
    c[CHOOSE i \in 1..Len(c) :
        /\ \A j \in 1..Len(c) : c[j].count <= c[i].count
        /\ \A j \in (i + 1)..Len(c) : c[j].count < c[i].count]
\* counter.most_common(1)[0]: max() over the entries in insertion order keeps the
\* first of the entries with the highest count
MostCommon(c) ==
    c[CHOOSE i \in 1..Len(c) :
        /\ \A j \in 1..Len(c) : c[j].count <= c[i].count
        /\ \A j \in 1..(i - 1) : c[j].count < c[i].count]

\* lines 234-238: the first rationale of a repeat that predicted final_pred
FirstExplanation(preds, expls, final_pred) ==
    LET hit(i) == preds[i] = PyInt(final_pred) /\ Truthy(expls[i])
    IN  IF \E i \in 1..Len(preds) : hit(i)
        THEN expls[CHOOSE i \in 1..Len(preds) : hit(i) /\ \A j \in 1..(i - 1) : ~hit(j)]
        ELSE PyStr(<<>>)

\* lines 230-238, top being the most common entry of the counter
Modal(preds, expls, preds_valid, top) ==
    [final_pred |-> top.key.num,
     consistency |-> <<top.count, Len(preds_valid)>>,
     final_expl |-> FirstExplanation(preds, expls, top.key.num)]
\* lines 225-238
AggregateValid(preds, expls, preds_valid) ==
    IF Len(preds_valid) = 0
    THEN [final_pred |-> -1, consistency |-> <<0, 1>>, final_expl |-> PyStr(<<>>)]
    ELSE Modal(preds, expls, preds_valid, MostCommon(Counter(preds_valid)))
\* lines 224-238: consistency is the fraction num/den
Aggregate(preds, expls) == AggregateValid(preds, expls, PredsValid(preds))

\* round(n/d, 3) in thousandths; a tie goes to the even thousandth
Round3(n, d) ==
    LET q == (1000 * n) \div d
        rem == (1000 * n) % d
    IN  IF 2 * rem < d THEN q
        ELSE IF 2 * rem > d THEN q + 1
        ELSE IF q % 2 = 0 THEN q ELSE q + 1

RECURSIVE DenProduct(_)
DenProduct(fs) == IF fs = <<>> THEN 1 ELSE fs[1][2] * DenProduct(Tail(fs))
RECURSIVE NumSum(_, _)
NumSum(fs, d) == IF fs = <<>> THEN 0 ELSE fs[1][1] * (d \div fs[1][2]) + NumSum(Tail(fs), d)
\* round(sum(fs) / len(fs), 3) of a list of fractions, 0.0 for the empty list
Mean3(fs) ==
    IF fs = <<>> THEN 0
    ELSE Round3(NumSum(fs, DenProduct(fs)), DenProduct(fs) * Len(fs))

(*************************** evaluate **************************************)
Styles == <<"zero_shot", "few_shot", "hidden_cot">>     \* the keys of PROMPTS

\* What the subprocess may do in a repeat, whatever the prompt.
GoodOut == <<ESC, "[", "?", "2", "5", "l", SPIN, "{", Q, "predicted_stars", Q, ":", " ",
             "5", ",", " ", Q, "explanation", Q, ":", " ", Q, "ok", Q, "}", "\n">>
NullLabelOut == <<Fence, "json", "\n", "{", Q, "predicted_stars", Q, ":", "null", ",",
                  Q, "reason", Q, ":", Q, "unsure", Q, "}", "\n", Fence>>
ProseOut == <<"four", " ", "stars">>
JsonInStderr == <<"Error:", " ", "{", Q, "stars", Q, ":", Q, "3", ".", "7", Q, "}">>
ProcOutcomes ==
    {ProcTimeout,
     ProcRaised(<<"No such file or directory">>),
     ProcExit(<<>>, JsonInStderr),
     ProcExit(GoodOut, <<SPIN, " ">>),
     ProcExit(NullLabelOut, <<>>),
     ProcExit(ProseOut, <<>>)}

GroundTruths == {5}
Datasets ==
    UNION {[1..n -> [text : {"review"}, stars : GroundTruths]] : n \in 0..MaxSamples}

Init ==
    /\ pc = "sample"
    /\ df \in Datasets
    /\ repeats \in 1..MaxRepeats
    /\ Len(df) * repeats <= MaxCross
    /\ style = 1 /\ idx = 0 /\ r = 0
    /\ repeat_preds = <<>> /\ repeat_expls = <<>> /\ valid_count = 0 /\ trials = <<>>
    /\ valid_counts = <<>> /\ accuracies = <<>> /\ consistencies = <<>>
    /\ results = <<>> /\ summary = <<>> /\ ncalls = 0
    /\ PureIdle /\ AppIdle

\* lines 188-194: the next row of the dataset
StartSample ==
    /\ pc = "sample" /\ idx < Len(df)
    /\ idx' = idx + 1 /\ r' = 0
    /\ repeat_preds' = <<>> /\ repeat_expls' = <<>> /\ valid_count' = 0 /\ trials' = <<>>
    /\ pc' = "repeat"
    /\ UNCHANGED <<df, repeats, style, valid_counts, accuracies, consistencies, results,
                   summary, ncalls, pureVars, appVars>>

\* the repeat loop left after its first pass
RepeatsLeftAfterFirst == IF r = 0 THEN 1 ELSE 0
\* line 196: the repeats of the current sample that are still to run
RepeatsLeft == repeats - r

\* lines 203-204 and 216-218: the outcome t of the repeat is recorded
Record(t) ==
    /\ repeat_preds' = Append(repeat_preds, t.pred)
    /\ repeat_expls' = Append(repeat_expls, t.expl)
    /\ valid_count' = valid_count + t.valid
    /\ trials' = Append(trials, t.raw)

\* what a repeat may record
TrialOutcomes == {Trial(proc) : proc \in ProcOutcomes}

\* lines 196-218: one repeat
RunRepeat ==
    /\ pc = "repeat" /\ RepeatsLeft > 0
    /\ \E t \in TrialOutcomes : Record(t)
    /\ r' = r + 1 /\ ncalls' = ncalls + 1
    /\ UNCHANGED <<pc, df, repeats, style, idx, valid_counts, accuracies, consistencies,
                   results, summary, pureVars, appVars>>

\* line 241
Accuracy(final_pred, true_label) ==
    IF final_pred = true_label /\ final_pred # -1 THEN 1 ELSE 0

\* lines 243-256: the result agg of the aggregation is stored
StoreResult(agg) ==
    /\ valid_counts' = Append(valid_counts, <<valid_count, repeats>>)
    /\ accuracies' = Append(accuracies, <<Accuracy(agg.final_pred, df[idx].stars), 1>>)
    /\ consistencies' = Append(consistencies, agg.consistency)
    /\ results' = Append(results,
            [style |-> Styles[style], review |-> idx, true_label |-> df[idx].stars,
             predicted_stars |-> agg.final_pred,
             explanation |-> agg.final_expl,
             json_validity_rate |-> Round3(valid_count, repeats),
             consistency |-> Round3(agg.consistency[1], agg.consistency[2])])

\* lines 220-256: the result of the current sample, once its repeats are done
AggregateSample ==
    /\ pc = "repeat" /\ RepeatsLeft <= 0
    /\ \E agg \in {Aggregate(repeat_preds, repeat_expls)} : StoreResult(agg)
    /\ pc' = "sample"
    /\ UNCHANGED <<df, repeats, style, idx, r, repeat_preds, repeat_expls, valid_count,
                   trials, summary, ncalls, pureVars, appVars>>

\* lines 258-269 and 183-186: the summary of a style, and the next style
SummarizeStyle ==
    /\ pc = "sample" /\ idx = Len(df)
    /\ summary' = Append(summary,
            [prompt_style |-> Styles[style], accuracy |-> Mean3(accuracies),
             json_validity_rate |-> Mean3(valid_counts),
             avg_consistency |-> Mean3(consistencies), num_examples |-> Len(df)])
    /\ IF style < Len(Styles)
       THEN /\ style' = style + 1 /\ idx' = 0 /\ pc' = "sample"
            /\ valid_counts' = <<>> /\ accuracies' = <<>> /\ consistencies' = <<>>
       ELSE /\ pc' = "save"
            /\ UNCHANGED <<style, idx, valid_counts, accuracies, consistencies>>
    /\ UNCHANGED <<df, repeats, r, repeat_preds, repeat_expls, valid_count, trials,
                   results, ncalls, pureVars, appVars>>

\* lines 271-294: the files are written, the tables printed
Save ==
    /\ pc = "save" /\ pc' = "done"
    /\ UNCHANGED <<pureVars, evalVars, appVars>>

Next == StartSample \/ RunRepeat \/ AggregateSample \/ SummarizeStyle \/ Save
Spec == Init /\ [][Next]_vars
\* the loops are sequential code: a step that can be taken is taken
FairSpec == Spec /\ WF_vars(Next)

(******************** functions called on their own ************************)
TextsUpTo(alphabet, n) == UNION {[1..k -> alphabet] : k \in 0..n}


\* --- clean_ansi
CleanChars == {ESC, SPIN, "[", "?", "2", "5", "l", "h", " ", "a"}
CleanInit ==
    /\ pc = "clean.call" /\ arg \in TextsUpTo(CleanChars, MaxCleanLen) /\ ret = <<>>
    /\ EvalIdle /\ AppIdle
\* the text is cleaned, and what came out is cleaned again
CleanOnce ==
    /\ pc = "clean.call" /\ pc' = "clean.again"
    /\ ret' = <<clean_ansi(arg)>>
    /\ UNCHANGED <<arg, evalVars, appVars>>
CleanAgain ==
    /\ pc = "clean.again" /\ pc' = "clean.return"
    /\ ret' = ret \o <<clean_ansi(ret[1])>>
    /\ UNCHANGED <<arg, evalVars, appVars>>
CleanNext == CleanOnce \/ CleanAgain
CleanSpec == CleanInit /\ [][CleanNext]_vars

\* --- normalize_stars
LabelChars == {"0", "2", "5", "7", ".", "-", " ", "a"}
NormInputs ==
    {PyNone, PyNaN, PyInf, PyBool(TRUE), PyBool(FALSE), PyList(<<>>)}
        \cup {PyInt(n) : n \in (-(MaxNum \div 2))..MaxNum}
        \cup {PyFloat(m, 10) : m \in (-5 * MaxNum)..(10 * MaxNum)}
        \cup {PyStr(s) : s \in TextsUpTo(LabelChars, MaxStrLen)}
NormInit ==
    /\ pc = "norm.call" /\ arg \in NormInputs /\ ret = 0
    /\ EvalIdle /\ AppIdle
NormApply ==
    /\ pc = "norm.call" /\ pc' = "norm.return"
    /\ ret' = normalize_stars(arg)
    /\ UNCHANGED <<arg, evalVars, appVars>>
NormNext == NormApply
NormSpec == NormInit /\ [][NormNext]_vars

\* --- try_parse_json_flexible
JsonItems == {"{", "}", "[", "]", ",", "1", Q}
ParseInit ==
    /\ pc = "parse.call" /\ arg \in TextsUpTo(JsonItems, MaxJsonLen)
    /\ ret = NotExtracted("")
    /\ EvalIdle /\ AppIdle
ParseApply ==
    /\ pc = "parse.call" /\ pc' = "parse.return"
    /\ ret' = try_parse_json_flexible(arg)
    /\ UNCHANGED <<arg, evalVars, appVars>>
ParseNext == ParseApply
ParseSpec == ParseInit /\ [][ParseNext]_vars

\* --- the aggregation of one sample's predictions
AggInputs ==
    UNION {[preds : [1..n -> {PyNone} \cup {PyInt(v) : v \in 1..5}],
            expls : [1..n -> {PyNone, PyStr(<<"because">>)}]] : n \in 1..MaxAggLen}
AggInit ==
    /\ pc = "agg.call" /\ arg \in AggInputs
    /\ ret = [final_pred |-> -1, consistency |-> <<0, 1>>, final_expl |-> PyStr(<<>>)]
    /\ EvalIdle /\ AppIdle
AggApply ==
    /\ pc = "agg.call" /\ pc' = "agg.return"
    /\ ret' = Aggregate(arg.preds, arg.expls)
    /\ UNCHANGED <<arg, evalVars, appVars>>
AggNext == AggApply
AggSpec == AggInit /\ [][AggNext]_vars

\* --- the field resolution of one extracted mapping
LabelKeys == <<"predicted_stars", "label", "stars">>
ExplKeys == <<"explanation", "reason", "justification">>
Absent == [kind |-> "absent", num |-> 0, den |-> 1, str |-> NoItems, items |-> NoItems]
\* what a key may hold: nothing, null, a number, a text
LabelOptions(n) == {Absent, PyNone, PyInt(n), PyStr(<<"a">>)}
ExplOptions(name) == {Absent, PyNone, PyStr(<<>>), PyStr(<<"see", " ", name>>)}
\* the mapping that holds choice[k] under each key k not chosen absent
MappingOf(choice) ==
    PyDict([k \in {Key(n) : n \in {m \in DOMAIN choice : choice[m] # Absent}}
              |-> choice[k[1]]])
ResolveInputs ==
    {MappingOf(c) :
        c \in [predicted_stars : LabelOptions(1), label : LabelOptions(2),
               stars : LabelOptions(3), explanation : ExplOptions("explanation"),
               reason : ExplOptions("reason"),
               justification : ExplOptions("justification")]}
ResolveInit ==
    /\ pc = "resolve.call" /\ arg \in ResolveInputs
    /\ ret = [s |-> PyNone, expl |-> PyNone]
    /\ EvalIdle /\ AppIdle
ResolveApply ==
    /\ pc = "resolve.call" /\ pc' = "resolve.return"
    /\ ret' = [s |-> ResolveLabel(arg), expl |-> ResolveExplanation(arg)]
    /\ UNCHANGED <<arg, evalVars, appVars>>
ResolveNext == ResolveApply
ResolveSpec == ResolveInit /\ [][ResolveNext]_vars

\* --- normalize_stars on its own, or inside a run of evaluate
LabelInit == NormInit \/ Init
LabelNext == NormNext \/ Next
LabelSpec == LabelInit /\ [][LabelNext]_vars

(****************************** app.py *************************************)
\* reviews.json holds the list arr when valid; size is how much text it holds, in
\* reviews.  Opening it for writing empties it, and an empty or overlaid file is
\* no JSON.  A review is named by the request that submitted it.
Requests == 1..MaxRequests

AppInit ==
    /\ pc = "serving"
    /\ store = [valid |-> TRUE, arr |-> <<>>, size |-> 0]
    /\ reqs = [i \in Requests |-> [pc |-> "idle", arr |-> <<>>]]
    /\ PureIdle /\ EvalIdle

AppFrame == UNCHANGED <<pc, pureVars, evalVars>>

\* submit_review, lines 119-135: the request is read and the replies generated;
\* a request without a rating or a review raises and is answered 500
Submit(i) ==
    /\ reqs[i].pc = "idle"
    /\ \E wellFormed \in BOOLEAN :
        reqs' = [reqs EXCEPT ![i].pc = IF wellFormed THEN "read" ELSE "error"]
    /\ UNCHANGED store /\ AppFrame

\* write_review, lines 33-34: read_reviews and append; json.load raises on a file
\* that is no JSON, and submit_review answers 500
ReadAndAppend(i) ==
    /\ reqs[i].pc = "read"
    /\ reqs' = [reqs EXCEPT ![i] =
                  IF store.valid THEN [pc |-> "open", arr |-> Append(store.arr, i)]
                  ELSE [pc |-> "error", arr |-> <<>>]]
    /\ UNCHANGED store /\ AppFrame

\* write_review, line 35: open(DATA_PATH, "w") truncates the file
OpenForWrite(i) ==
    /\ reqs[i].pc = "open"
    /\ store' = [valid |-> FALSE, arr |-> <<>>, size |-> 0]
    /\ reqs' = [reqs EXCEPT ![i].pc = "dump"]
    /\ AppFrame

\* write_review, line 36: the list is written from the start of the file, over
\* whatever another writer has put there since the file was opened
DumpAndClose(i) ==
    /\ reqs[i].pc = "dump"
    /\ store' = IF Len(reqs[i].arr) >= store.size
                THEN [valid |-> TRUE, arr |-> reqs[i].arr, size |-> Len(reqs[i].arr)]
                ELSE [valid |-> FALSE, arr |-> <<>>, size |-> store.size]
    /\ reqs' = [reqs EXCEPT ![i].pc = "notify"]
    /\ AppFrame

\* submit_review, lines 140-147: the listeners are notified under listeners_lock
\* and the request is answered {"ok": true}
NotifyAndAnswer(i) ==
    /\ reqs[i].pc = "notify"
    /\ reqs' = [reqs EXCEPT ![i].pc = "ok"]
    /\ UNCHANGED store /\ AppFrame

AppNext ==
    \E i \in Requests :
        \/ Submit(i)
        \/ ReadAndAppend(i)
        \/ OpenForWrite(i)
        \/ DumpAndClose(i)
        \/ NotifyAndAnswer(i)
AppSpec == AppInit /\ [][AppNext]_vars

(****************************** properties *********************************)
\* --- evaluate, one sample
\* the result of the current sample is stored and its repeats are still at hand
Aggregated == pc \in {"sample", "save", "done"} /\ idx >= 1 /\ Len(trials) = repeats
LastResult == results[Len(results)]
ExtractedTrials == {i \in 1..Len(trials) : try_parse_json_flexible(trials[i]).ok}
LabelOfTrial(i) == normalize_stars(ResolveLabel(try_parse_json_flexible(trials[i]).parsed))
LabelledTrials == {i \in ExtractedTrials : LabelOfTrial(i) # -1}

IsErrorValue(raw) == IsPrefix(<<ErrorOpen>>, raw)
C2_ErrorsShortCircuit ==
    /\ \A i \in 1..Len(trials) :
        IsErrorValue(trials[i]) => repeat_preds[i] = PyNone /\ repeat_expls[i] = PyNone
    /\ valid_count <= Cardinality({i \in 1..Len(trials) : ~IsErrorValue(trials[i])})

\* C7: a run of evaluate ends; when it has ended the subprocess has been invoked
\* styles x samples x repeats times, there is one result for every pair of a style
\* and a sample and one summary for every style; and a result is stored only
\* once all the repeats of its sample have run.
ResultsOf(s, k) ==
    {j \in 1..Len(results) : results[j].style = Styles[s] /\ results[j].review = k}
C7_Complete ==
    /\ ncalls = Len(Styles) * Len(df) * repeats
    /\ Len(results) = Len(Styles) * Len(df)
    /\ \A s \in 1..Len(Styles) : \A k \in 1..Len(df) : Cardinality(ResultsOf(s, k)) = 1
    /\ Len(summary) = Len(Styles)
    /\ \A s \in 1..Len(Styles) : summary[s].prompt_style = Styles[s]
RoundRange == (-Pow10(MaxStrLen + 1))..Pow10(MaxStrLen + 1)
\* the integer nearest to m/d, the one further from zero when m/d is halfway
HalfAway(m, d) ==
    CHOOSE k \in RoundRange :
        /\ 2 * Abs(k * d - m) <= d
        /\ 2 * Abs(k * d - m) = d => Abs(k) * d > Abs(m)
IntoRange(n) == IF n < 1 THEN 1 ELSE IF n > 5 THEN 5 ELSE n
\* a text that is a number but not a run of digits
IsFractionText(v) ==
    v.kind = "str" /\ ~IsDigitStr(Strip(v.str)) /\ PyFloatOfStr(Strip(v.str)).ok
FractionOf(v) == PyFloatOfStr(Strip(v.str))

\* C3: numbers and numeric text are rounded to the nearest integer,
\* a half going away from zero, and then clamped into 1..5.
C3_HalfAwayFromZero ==
    pc = "norm.return" =>
        /\ arg.kind \in {"int", "float"} =>
             ret = IntoRange(HalfAway(arg.num, arg.den))
        /\ IsFractionText(arg) =>
             ret = IntoRange(HalfAway(FractionOf(arg).num, FractionOf(arg).den))
\* C8: a normalised label is -1 or one of 1..5, and it is -1 exactly when the
\* raw label is absent or is no number; the predictions of the repeats are
\* None or in 1..5 and the predicted_stars of every result is -1 or in 1..5.
NumericText(t) ==
    LET body == IF t # <<>> /\ t[1] = "-" THEN Tail(t) ELSE t
    IN  /\ \E i \in 1..Len(body) : body[i] \in Digits
        /\ \A i \in 1..Len(body) : body[i] \in Digits \cup {"."}
        /\ Cardinality({i \in 1..Len(body) : body[i] = "."}) <= 1
\* nan, the infinities and the containers are no numbers
IsNumber(v) ==
    \/ v.kind \in {"int", "bool", "float"}
    \/ v.kind = "str" /\ NumericText(Strip(v.str))
LabelRange == {-1, 1, 2, 3, 4, 5}
C8_LabelsInRange ==
    /\ pc = "norm.return" => ret \in LabelRange /\ (ret = -1 <=> ~IsNumber(arg))
    /\ \A i \in 1..Len(repeat_preds) :
        repeat_preds[i] = PyNone \/ repeat_preds[i] \in {PyInt(n) : n \in 1..5}
    /\ \A j \in 1..Len(results) : results[j].predicted_stars \in LabelRange
\* a text that is no number has been normalised to the sentinel
C8_TextWithoutNumber ==
    pc = "norm.return" /\ arg.kind = "str" /\ Len(arg.str) > 0 /\ ~IsNumber(arg) /\ ret = -1

\* --- aggregation
ValidRepeats == {i \in 1..Len(arg.preds) : arg.preds[i] # PyNone}
CountOf(v) == Cardinality({i \in ValidRepeats : arg.preds[i] = PyInt(v)})
FirstSeen(v) == CHOOSE i \in ValidRepeats :
                    arg.preds[i] = PyInt(v) /\ \A j \in 1..(i - 1) : arg.preds[j] # PyInt(v)

\* C4: the final label of a sample is the most frequent of its valid labels and,
\* among equally frequent ones, the one seen first; the consistency is the share
\* of the valid labels that equal it, above 0 and at most 1; a sample without a
\* valid label has the final label -1 and the consistency 0.
C4_ModalFirstSeen ==
    pc = "agg.return" =>
        IF ValidRepeats = {}
        THEN ret.final_pred = -1 /\ ret.consistency[1] = 0
        ELSE /\ ret.final_pred \in 1..5 /\ CountOf(ret.final_pred) > 0
             /\ \A v \in 1..5 :
                  /\ CountOf(v) <= CountOf(ret.final_pred)
                  /\ v # ret.final_pred /\ CountOf(v) = CountOf(ret.final_pred)
                       => FirstSeen(ret.final_pred) < FirstSeen(v)
             /\ ret.consistency[1] * Cardinality(ValidRepeats)
                  = CountOf(ret.final_pred) * ret.consistency[2]
             /\ 0 < ret.consistency[1] /\ ret.consistency[1] <= ret.consistency[2]
\* two labels were equally frequent, and the larger one was seen first
C4_TieAggregated ==
    /\ pc = "agg.return"
    /\ \E v \in 1..5 : v < ret.final_pred /\ CountOf(v) = CountOf(ret.final_pred)

\* --- clean_ansi
\* C5: cleaning a text that has been cleaned changes nothing.
C5_Idempotent == pc = "clean.return" => ret[2] = ret[1]

\* --- try_parse_json_flexible
DirectValue == json_loads(Unfenced(arg))
DirectIsList == DirectValue.ok /\ DirectValue.val.kind = "list"
DirectGivesMapping ==
    /\ DirectValue.ok
    /\ \/ DirectValue.val.kind = "dict"
       \/ /\ DirectValue.val.kind = "list" /\ Len(DirectValue.val.items) > 0
          /\ DirectValue.val.items[1].kind = "dict"
SpanGivesMapping == BraceSpanParse(Unfenced(arg)).ok

\* C6, as the code has it: the extraction fails when the direct parse gives a
\* list that is empty or whose first element is no mapping, the brace-span
\* fallback not being tried, and otherwise only when neither the direct parse
\* nor the brace-span fallback gives a mapping.
C6_ListFailsWithoutFallback ==
    pc = "parse.return" =>
        /\ ~ret.ok <=> \/ DirectIsList /\ ~DirectGivesMapping
                       \/ ~DirectGivesMapping /\ ~SpanGivesMapping
        /\ DirectIsList /\ ~DirectGivesMapping
             => ret.err \in {"empty list", "first item not dict"}
\* C6 as stated: the extraction fails only when neither the direct parse nor the
\* brace-span fallback gives a mapping.
C6_FailsOnlyWhenBothFail ==
    pc = "parse.return" => (~ret.ok <=> ~DirectGivesMapping /\ ~SpanGivesMapping)
\* a list whose first element is no mapping, with a mapping between its braces
C6_ListAroundMapping ==
    /\ pc = "parse.return"
    /\ DirectIsList /\ ~DirectGivesMapping /\ SpanGivesMapping
    /\ ~ret.ok /\ ret.err = "first item not dict"

\* --- field resolution
FirstWith(keys, good(_)) ==
    IF \E i \in 1..Len(keys) : good(keys[i])
    THEN Get(arg, keys[CHOOSE i \in 1..Len(keys) :
                         good(keys[i]) /\ \A j \in 1..(i - 1) : ~good(keys[j])])
    ELSE PyNone
IsPresent(k) == Has(arg, k)
IsFilled(k) == Has(arg, k) /\ Truthy(Get(arg, k))
OrNone(v) == IF Truthy(v) THEN v ELSE PyNone

\* C9, as the code has it: the label is the value of the first of the keys
\* predicted_stars, label, stars that is present; the rationale is the value
\* of the first of the keys explanation, reason, justification whose value is
\* not empty, so that an empty rationale under an earlier key falls through
\* to a later key.
C9_RationaleByFirstFilledKey ==
    pc = "resolve.return" =>
        /\ ret.s = FirstWith(LabelKeys, IsPresent)
        /\ ret.expl = FirstWith(ExplKeys, IsFilled)
\* C9 as stated: label and rationale are each the value of the first of their
\* keys that is present; an empty rationale under an earlier key does not fall
\* through to a later key.
C9_RationaleByFirstPresentKey ==
    pc = "resolve.return" =>
        /\ ret.s = FirstWith(LabelKeys, IsPresent)
        /\ ret.expl = OrNone(FirstWith(ExplKeys, IsPresent))
\* an empty explanation next to a reason
C9_EmptyBeforeFilled ==
    /\ pc = "resolve.return"
    /\ Has(arg, "explanation") /\ Get(arg, "explanation") = PyStr(<<>>)
    /\ Has(arg, "reason") /\ Truthy(Get(arg, "reason"))
    /\ ret.expl = Get(arg, "reason")

\* --- app.py
Answered(i) == reqs[i].pc = "ok"
Writing(i) == reqs[i].pc \in {"read", "open", "dump"}
Stored(i) == \E k \in 1..Len(store.arr) : store.arr[k] = i

\* C10: when no request is being written, the store is valid and holds the
\* review of every request that was answered ok, whatever the interleaving of
\* the requests.
C10_NoReviewLost ==
    (\A i \in Requests : ~Writing(i)) =>
        store.valid /\ \A i \in Requests : Answered(i) => Stored(i)

====
